---- MODULE Spec2Model ----
(***************************************************************************)
(* Model of shared/agent_utils.py (single projection matrix) and           *)
(* shared/agent_utils3.py (projection split over two devices): the Metric  *)
(* accumulator, the flatten/unflatten helpers, the sketch compressor, the  *)
(* Agent's local training loop over its batch generator and the Server's   *)
(* aggregation round and sampling dispatch.                                *)
(*                                                                         *)
(* Tensor values are exact rationals <<num, den>> in lowest terms with     *)
(* den > 0.  Vectors are sequences of rationals; a projection matrix is a  *)
(* sequence of D rows, each a sequence of integer samples.                 *)
(***************************************************************************)
EXTENDS Integers, Sequences, FiniteSets, TLC

\* ------------------------------------------------------------------ bounds
MaxN == 2
MaxK == 4
F == 2
MaxSeed == 1
MaxOps == 2
MaxClients == 2
MaxUpdates == 3
MaxParams == 3
MaxNumel == 2
MaxFlatOps == 2
MaxDraw == 2
MaxWidth == 4
MaxCalls == 4
Resolution == 4

\* ------------------------------------------------------- exact arithmetic
Abs(x) == IF x < 0 THEN -x ELSE x

RECURSIVE GCD(_, _)
GCD(a, b) == IF b = 0 THEN a ELSE GCD(b, a % b)

Rat(n, d) ==
    IF n = 0 THEN <<0, 1>>
    ELSE LET s == IF d < 0 THEN -1 ELSE 1
             g == GCD(Abs(n), Abs(d))
         IN <<(s * n) \div g, (s * d) \div g>>

Zero == <<0, 1>>
One == <<1, 1>>
FromInt(i) == <<i, 1>>
\* sums go through the least common denominator, products cancel first
RAdd(x, y) ==
    LET g == GCD(x[2], y[2])
    IN Rat(x[1] * (y[2] \div g) + y[1] * (x[2] \div g), (x[2] \div g) * y[2])
RNeg(x) == <<-x[1], x[2]>>
RSub(x, y) == RAdd(x, RNeg(y))
RMul(x, y) ==
    LET a == Rat(x[1], y[2])
        b == Rat(y[1], x[2])
    IN <<a[1] * b[1], a[2] * b[2]>>
RDiv(x, y) == RMul(x, Rat(y[2], y[1]))
RLess(x, y) == x[1] * y[2] < y[1] * x[2]

ZeroDivisionError == "ZeroDivisionError"
RuntimeError == "RuntimeError"

\* what an expression or a call gives: a value, or the exception it raised
Ok(v) == [err |-> "", val |-> v]
Raise(e) == [err |-> e, val |-> <<>>]
NoValue == Ok(<<>>)

\* Python's `a / b` on numbers: raises ZeroDivisionError when b is 0.
PyDiv(x, y) == IF y[1] = 0 THEN Raise(ZeroDivisionError) ELSE Ok(RDiv(x, y))

\* ----------------------------------------------------------------- vectors
Zeros(n) == [i \in 1..n |-> Zero]
VecAdd(u, v) == [i \in 1..Len(u) |-> RAdd(u[i], v[i])]
VecSub(u, v) == [i \in 1..Len(u) |-> RSub(u[i], v[i])]
VecScale(c, v) == [i \in 1..Len(v) |-> RMul(c, v[i])]

RECURSIVE RSum(_, _)
\* sum of the terms t[1..n] of a function of rationals
RSum(t, n) == IF n = 0 THEN Zero ELSE RAdd(RSum(t, n - 1), t[n])

RECURSIVE VecSumSeq(_, _)
\* element-wise sum of a sequence of vectors of length d
VecSumSeq(vs, d) ==
    IF vs = <<>> THEN Zeros(d)
    ELSE VecAdd(VecSumSeq(SubSeq(vs, 1, Len(vs) - 1), d), vs[Len(vs)])

\* x[lo:hi] of Python: 0-based, end exclusive, clipped to the sequence
Slice(x, lo, hi) ==
    LET h == IF hi > Len(x) THEN Len(x) ELSE hi
    IN IF lo >= h THEN <<>> ELSE SubSeq(x, lo + 1, h)

\* ------------------------------------------------------------------ Metric
MetricInit(name) == [name |-> name, sum |-> Zero, n |-> 0]

\* a value handed to Metric.update: a plain number or a 0-dim tensor
IsTensor(val) == val.tensor

Metric_update_skipTensorCount(m, val) ==
    IF IsTensor(val)
    THEN [m EXCEPT !.sum = RAdd(m.sum, val.v)]
    ELSE [m EXCEPT !.sum = RAdd(m.sum, val.v), !.n = m.n + 1]

Metric_update(m, val) ==
    IF IsTensor(val)
    THEN [m EXCEPT !.sum = RAdd(m.sum, val.v), !.n = m.n + 1]
    ELSE [m EXCEPT !.sum = RAdd(m.sum, val.v), !.n = m.n + 1]

Metric_avg(m) == PyDiv(m.sum, FromInt(m.n))

Num(v) == [tensor |-> FALSE, v |-> v]

\* ------------------------------------------------------ models and tensors
None == "None"
AttributeError == "AttributeError"
\* p.grad is None
NoGrad == <<>>

\* a parameter of an nn.Module: value buffer, trainability flag, gradient
Param(data, rg) == [data |-> data, requires_grad |-> rg, grad |-> NoGrad]

\* a model instance with a trainable scalar, a frozen scalar and a second
\* trainable scalar, in declaration order
NewModel(v1, v2, v3) ==
    [params |-> <<Param(<<FromInt(v1)>>, TRUE),
                  Param(<<FromInt(v2)>>, FALSE),
                  Param(<<FromInt(v3)>>, TRUE)>>]

numel(p) == Len(p.data)

\* torch.cat(tensors) of a list of 1-D tensors: raises RuntimeError on an
\* empty list
cat(tensors) ==
    LET RECURSIVE Upto(_)
        Upto(n) == IF n = 1 THEN tensors[1] ELSE Upto(n - 1) \o tensors[n]
    IN IF tensors = <<>> THEN Raise(RuntimeError) ELSE Ok(Upto(Len(tensors)))

RECURSIVE TrainableOf(_, _, _)
\* the list [p.<field> for p in ps[1..n] if p.requires_grad]
TrainableOf(ps, n, field) ==
    IF n = 0 THEN <<>>
    ELSE IF ps[n].requires_grad THEN Append(TrainableOf(ps, n - 1, field), ps[n][field])
         ELSE TrainableOf(ps, n - 1, field)

\* gives Ok(vector), or Raise(RuntimeError) when no parameter is trainable
get_flatten_model_param(model) ==
    cat(TrainableOf(model.params, Len(model.params), "data"))

\* p.grad.detach() raises AttributeError on the first trainable parameter
\* without a gradient, before torch.cat is reached
get_flatten_model_grad(model) ==
    IF \E i \in 1..Len(model.params) :
          model.params[i].requires_grad /\ model.params[i].grad = NoGrad
    THEN Raise(AttributeError)
    ELSE cat(TrainableOf(model.params, Len(model.params), "grad"))

\* torch.zeros_like(get_flatten_model_param(model)), and
\* get_flatten_model_param(model).size(0): the error of the flattening, if any
zeros_like_flat(model) ==
    IF get_flatten_model_param(model).err # "" THEN get_flatten_model_param(model)
    ELSE Ok(Zeros(Len(get_flatten_model_param(model).val)))

size_of_flat(model) ==
    IF get_flatten_model_param(model).err # "" THEN get_flatten_model_param(model)
    ELSE Ok(Len(get_flatten_model_param(model).val))

\* set_all_param_zero: every parameter's values become 0, frozen ones
\* included; the gradients stay
set_all_param_zero(model) ==
    [model EXCEPT !.params = [i \in 1..Len(model.params) |->
        [model.params[i] EXCEPT !.data = Zeros(numel(model.params[i]))]]]

RECURSIVE SetBackFrom(_, _, _, _)
\* the loop of set_flatten_model_back from parameter i on, `start` being the
\* read offset; view() raises when the slice does not hold numel elements,
\* the parameters written before it stay written
SetBackFrom(model, x, i, start) ==
    IF i > Len(model.params) THEN [model |-> model, error |-> None]
    ELSE LET p == model.params[i]
         IN IF ~p.requires_grad THEN SetBackFrom(model, x, i + 1, start)
            ELSE LET p_extract == Slice(x, start, start + numel(p))
                 IN IF Len(p_extract) # numel(p)
                    THEN [model |-> model, error |-> RuntimeError]
                    ELSE SetBackFrom(
                           [model EXCEPT !.params[i].data = p_extract,
                                         !.params[i].grad =
                                            IF p.grad = NoGrad THEN NoGrad
                                            ELSE Zeros(numel(p))],
                           x, i + 1, start + numel(p))

set_flatten_model_back(model, x_flattern) == SetBackFrom(model, x_flattern, 1, 0)

\* ------------------------------------- forward, loss, backward, optimizer
\* The network, the criterion and the optimizer are supplied by the caller.
\* Here: a batch carries one target x, the loss is the squared distance of
\* the trainable values to x, the optimizer is plain SGD with one
\* parameter group, whose learning rate is OptLr when the agent is built.
OptLr == <<1, 1>>

Loss(model, x) ==
    LET ps == model.params
        sq(p) == RSum([e \in 1..numel(p) |-> RMul(RSub(p.data[e], x), RSub(p.data[e], x))],
                      numel(p))
    IN RSum([i \in 1..Len(ps) |-> IF ps[i].requires_grad THEN sq(ps[i]) ELSE Zero],
            Len(ps))

Accuracy(model, x) == IF Loss(model, x) = Zero THEN One ELSE Zero

zero_grad(model) ==
    [model EXCEPT !.params = [i \in 1..Len(model.params) |->
                                 [model.params[i] EXCEPT !.grad = NoGrad]]]

\* loss.backward(): adds dLoss/dp to the gradient buffer of every trainable p
backward(model, x) ==
    [model EXCEPT !.params = [i \in 1..Len(model.params) |->
        LET p == model.params[i]
            g == [e \in 1..numel(p) |-> RMul(FromInt(2), RSub(p.data[e], x))]
        IN IF ~p.requires_grad THEN p
           ELSE [p EXCEPT !.grad = IF p.grad = NoGrad THEN g
                                   ELSE VecAdd(p.grad, g)]]]

\* optimizer.step() with the learning rate the parameter group has now
optimizer_step(model, lr) ==
    [model EXCEPT !.params = [i \in 1..Len(model.params) |->
        LET p == model.params[i]
        IN IF ~p.requires_grad \/ p.grad = NoGrad THEN p
           ELSE [p EXCEPT !.data = VecSub(p.data, VecScale(lr, p.grad))]]]

\* ------------------------------------------------------------------- Agent
\* a projection matrix object: `id` tells apart the matrices generated,
\* `device` is where the tensor resides
Matrix(id, m, device) == [id |-> id, m |-> m, device |-> device]

NoMatrix == Matrix(0, <<>>, None)

Agents == {"a1", "a2"}

\* the generator returned by get_one_train_batch: the number of batches it
\* has yielded so far; it raises StopIteration once the loader is used up
GenNext_skipping(gen, loader) ==
    IF gen < Len(loader)
    THEN [stop |-> FALSE, batch_idx |-> gen, batch |-> loader[gen + 1], gen |-> gen + 2]
    ELSE [stop |-> TRUE, batch_idx |-> gen, batch |-> Zero, gen |-> gen]

GenNext(gen, loader) ==
    IF gen < Len(loader)
    THEN [stop |-> FALSE, batch_idx |-> gen, batch |-> loader[gen + 1], gen |-> gen + 1]
    ELSE [stop |-> TRUE, batch_idx |-> gen, batch |-> Zero, gen |-> gen]

\* Agent.__init__: the object, or the error the constructor raised when the
\* model has no trainable parameter to flatten.  G, G1 and G2 are tensor
\* objects as the server's are (NoMatrix: the attribute does not exist); the
\* constructor fills them with a zero vector of the flattened length.
\* self.model = model.to(device): the replica, and with it model_grad, which
\* is made by zeros_like of its flattening, reside on the agent's device.
AgentInit(model, device) ==
    IF zeros_like_flat(model).err # "" THEN zeros_like_flat(model)
    ELSE [model |-> model,
          device |-> device, device_1 |-> None, device_2 |-> None,
          optimizer |-> [lr |-> OptLr],
          train_loss |-> MetricInit("train_loss"),
          train_accuracy |-> MetricInit("train_accuracy"),
          batch_idx |-> 0,
          epoch |-> 0,
          data_generator |-> 0,
          model_grad |-> zeros_like_flat(model).val,
          G |-> Matrix(0, zeros_like_flat(model).val, device),
          G1 |-> NoMatrix, G2 |-> NoMatrix]

\* agent_utils3.py, Agent.__init__: the replica is on device_1; G1 and G2
\* instead of G
AgentInit3(model, device_1, device_2) ==
    IF zeros_like_flat(model).err # "" THEN zeros_like_flat(model)
    ELSE [AgentInit(model, None) EXCEPT
             !.device_1 = device_1, !.device_2 = device_2,
             !.G = NoMatrix,
             !.G1 = Matrix(0, zeros_like_flat(model).val, device_1),
             !.G2 = Matrix(0, zeros_like_flat(model).val, device_2)]

\* Agent.pull_G: self.G = server.G; the server of agent_utils3.py has no
\* attribute G, so the read raises AttributeError and nothing is assigned
pull_G(self, server_) ==
    IF server_.G = NoMatrix THEN [self |-> self, error |-> AttributeError]
    ELSE [self |-> [self EXCEPT !.G = server_.G], error |-> None]

\* Agent.decay_lr_in_optimizer: g["lr"] *= gamma for the parameter group
decay_lr_in_optimizer(self, gamma) ==
    [self EXCEPT !.optimizer.lr = RMul(self.optimizer.lr, gamma)]

reset_epoch_keepGenerator(self) ==
    [self EXCEPT !.batch_idx = 0,
                 !.epoch = self.epoch + 1,
                 !.train_loss = MetricInit("train_loss"),
                 !.train_accuracy = MetricInit("train_accuracy")]

reset_epoch(self) ==
    [self EXCEPT !.data_generator = 0,
                 !.batch_idx = 0,
                 !.epoch = self.epoch + 1,
                 !.train_loss = MetricInit("train_loss"),
                 !.train_accuracy = MetricInit("train_accuracy")]

\* the pair `self.train_loss.avg, self.train_accuracy.avg`
Avgs(self) ==
    LET l == Metric_avg(self.train_loss)
        a == Metric_avg(self.train_accuracy)
    IN IF l.err # "" THEN l
       ELSE IF a.err # "" THEN a
       ELSE Ok(<<l.val, a.val>>)

\* self.model_grad += get_flatten_model_grad(self.model)
AccumulateGrad_overwrite(model_grad, g) == g

AccumulateGrad(model_grad, g) == VecAdd(model_grad, g)

\* self.model_grad = torch.zeros_like(get_flatten_model_param(self.model))
ResetGrad_keep(self) == Ok(self.model_grad)

ResetGrad(self) == zeros_like_flat(self.model)

\* one pass of the loop body after a batch x was obtained: the agent after
\* it, with the step's flattened gradient, loss and accuracy
\* m1 is the model after backward(), g its flattened gradient, loss and acc
\* the batch's loss and accuracy
Stepped(self, m1, g, loss, acc) ==
    [self |-> [self EXCEPT
                 !.model = optimizer_step(m1, self.optimizer.lr),
                 !.model_grad = AccumulateGrad(self.model_grad, g),
                 !.train_loss = Metric_update(self.train_loss, Num(loss)),
                 !.train_accuracy = Metric_update(self.train_accuracy, Num(acc))],
     g |-> g, loss |-> loss, acc |-> acc]

Backpropagated(self, x, m1) ==
    Stepped(self, m1, get_flatten_model_grad(m1).val,
            Loss(self.model, x), Accuracy(self.model, x))

TrainOnBatch(self, x) == Backpropagated(self, x, backward(zero_grad(self.model), x))

\* the log of the call after one more batch: s1 is what TrainOnBatch gave
Logged(st, batch_idx, s1) ==
    [st EXCEPT !.self = s1.self,
               !.batches = Append(st.batches, batch_idx),
               !.grads = Append(st.grads, s1.g),
               !.losses = Append(st.losses, s1.loss),
               !.accs = Append(st.accs, s1.acc)]

\* the except branch of the loop: r is the pair of averages, or the error
\* reading them raised, which leaves the call before reset_epoch
Exhausted(st, r) ==
    IF r.err # ""
    THEN [st EXCEPT !.ret = r, !.exhausted = TRUE]
    ELSE [st EXCEPT !.ret = r, !.exhausted = TRUE, !.self = reset_epoch(st.self)]

RECURSIVE TrainLoop(_, _, _, _)
\* iterations i..k-1 of the loop of train_k_step_fedavg.  st.self is the
\* agent; st.ret the value returned (or the exception raised); the other
\* fields log what the call did: the batch indices processed, the per-step
\* flattened gradients, losses and accuracies, and whether next() raised.
TrainLoop(st, loader, i, k) ==
    IF i >= k THEN [st EXCEPT !.ret = Avgs(st.self)]
    ELSE LET nx == GenNext(st.self.data_generator, loader)
         IN IF nx.stop
            THEN Exhausted(st, Avgs(st.self))
            ELSE TrainLoop(
                   Logged(st, nx.batch_idx,
                          TrainOnBatch([st.self EXCEPT !.data_generator = nx.gen],
                                       nx.batch)),
                   loader, i + 1, k)

\* the call's log before the first iteration
Started(self, ret) ==
    [self |-> self, ret |-> ret, exhausted |-> FALSE,
     batches |-> <<>>, grads |-> <<>>, losses |-> <<>>, accs |-> <<>>]

train_k_step_fedavg(self, loader, k) ==
    IF ResetGrad(self).err # "" THEN Started(self, ResetGrad(self))
    ELSE TrainLoop(Started([self EXCEPT !.model_grad = ResetGrad(self).val], NoValue),
                   loader, 0, k)

\* what local_update_selected_clients_fedavg holds before its first client:
\* the agents, the two sums, and the log of the calls it made
NoneTrained(agents) ==
    [agent |-> agents, train_loss_sum |-> Zero, train_acc_sum |-> Zero,
     calls |-> <<>>, error |-> None]

\* client c has run train_k_step_fedavg, which did r; an exception of the
\* call leaves the function before the sums are touched
ClientTrained(acc, c, r) ==
    IF r.ret.err # ""
    THEN [acc EXCEPT !.agent[c] = r.self,
                     !.calls = Append(acc.calls, [agent |-> c, before |-> acc.agent[c], r |-> r]),
                     !.error = r.ret.err]
    ELSE [acc EXCEPT !.agent[c] = r.self,
                     !.calls = Append(acc.calls, [agent |-> c, before |-> acc.agent[c], r |-> r]),
                     !.train_loss_sum = RAdd(acc.train_loss_sum, r.ret.val[1]),
                     !.train_acc_sum = RAdd(acc.train_acc_sum, r.ret.val[2])]

RECURSIVE LocalLoop(_, _, _, _, _)
\* the client loop of local_update_selected_clients_fedavg from client i on
LocalLoop(acc, loaders, clients, local_update, i) ==
    IF i > Len(clients) \/ acc.error # None THEN acc
    ELSE LocalLoop(ClientTrained(acc, clients[i],
                                 train_k_step_fedavg(acc.agent[clients[i]],
                                                     loaders[clients[i]], local_update)),
                   loaders, clients, local_update, i + 1)

\* the return statement: the two sums over len(clients)
LocalAverages(acc, n) ==
    IF acc.error # None THEN Raise(acc.error)
    ELSE IF PyDiv(acc.train_loss_sum, FromInt(n)).err # ""
    THEN PyDiv(acc.train_loss_sum, FromInt(n))
    ELSE Ok(<<PyDiv(acc.train_loss_sum, FromInt(n)).val,
              PyDiv(acc.train_acc_sum, FromInt(n)).val>>)

\* local_update_selected_clients_fedavg(clients, server, local_update);
\* agents and loaders are the objects and loaders by client name
LocalReturned(acc, n) ==
    [agent |-> acc.agent, calls |-> acc.calls, ret |-> LocalAverages(acc, n)]

local_update_selected_clients_fedavg(agents, loaders, clients, local_update) ==
    LocalReturned(LocalLoop(NoneTrained(agents), loaders, clients, local_update, 1),
                  Len(clients))

\* Agent.eval / Server.eval over a test loader: the averages of fresh metrics
\* are returned; no parameter is written
RECURSIVE EvalLoop(_, _, _, _)
EvalLoop(model, test, i, ms) ==
    IF i > Len(test) THEN ms
    ELSE EvalLoop(model, test, i + 1,
                  [acc |-> Metric_update(ms.acc, Num(Accuracy(model, test[i]))),
                   loss |-> Metric_update(ms.loss, Num(Loss(model, test[i])))])

eval(model, test_dataloader) ==
    LET ms == EvalLoop(model, test_dataloader, 1,
                       [acc |-> MetricInit("val_accuracy"),
                        loss |-> MetricInit("val_loss")])
        l == Metric_avg(ms.loss)
        a == Metric_avg(ms.acc)
    IN [model |-> model,
        ret |-> IF l.err # "" THEN l
                ELSE IF a.err # "" THEN a
                ELSE Ok(<<l.val, a.val>>)]

\* ------------------------------------------------------- sketch compressor
\* torch's random generator: a state that every sample drawn advances.
\* Samples are small integers standing for the normal variates.
RngNext(g) == (g * 5 + 3) % 16
RngSample(g) == ((g \div 2) % 5) - 2

RECURSIVE Randn(_, _, _)
\* torch.randn(rows, cols): the values in row-major order, and the generator
\* state afterwards
Randn(rows, cols, g) ==
    IF rows = 0 THEN [m |-> <<>>, rng |-> g]
    ELSE LET RECURSIVE Row(_, _)
             Row(c, h) == IF c = 0 THEN [v |-> <<>>, rng |-> h]
                          ELSE LET rest == Row(c - 1, h)
                               IN [v |-> Append(rest.v, RngSample(rest.rng)),
                                   rng |-> RngNext(rest.rng)]
             first == Row(cols, g)
             others == Randn(rows - 1, cols, first.rng)
         IN [m |-> <<first.v>> \o others.m, rng |-> others.rng]

RECURSIVE FillChunks(_, _, _, _, _, _)
\* the row-block loop of generate_gaussian_matrix from row i on
FillChunks(G, d, f, chunk_size, i, g) ==
    IF i >= d THEN [m |-> G, rng |-> g]
    ELSE LET end_idx == IF i + chunk_size < d THEN i + chunk_size ELSE d
             blk == Randn(end_idx - i, f, g)
         IN FillChunks(G \o blk.m, d, f, chunk_size, end_idx, blk.rng)

\* agent_utils.py: a d x f matrix filled in row blocks of chunk_size = 1
generate_gaussian_matrix(d, f, g) == FillChunks(<<>>, d, f, 1, 0, g)

\* agent_utils3.py: torch.randn(d, f // 2)
generate_gaussian_matrix3(d, f, g) == Randn(d, f \div 2, g)

NCols(G) == IF Len(G) = 0 THEN 0 ELSE Len(G[1])

\* (G[lo:hi, :]).T @ delta[lo:hi]
ChunkTDot(G, delta, lo, hi) ==
    [c \in 1..NCols(G) |->
        RSum([r \in 1..(hi - lo) |-> RMul(FromInt(G[lo + r][c]), delta[lo + r])],
             hi - lo)]

\* G @ w
MatVec(G, w) ==
    [r \in 1..Len(G) |->
        RSum([c \in 1..Len(w) |-> RMul(FromInt(G[r][c]), w[c])], Len(w))]

DefaultChunkSize == 1000

Min(a, b) == IF a < b THEN a ELSE b

RECURSIVE WeightsFrom(_, _, _, _, _, _)
\* the chunk loop of get_approx_optimal_weights from row i on
WeightsFrom(G, delta, f, chunk_size, i, w) ==
    IF i >= Len(G) THEN w
    ELSE LET end_idx == Min(i + chunk_size, Len(G))
             part == ChunkTDot(G, delta, i, end_idx)
         IN WeightsFrom(G, delta, f, chunk_size, end_idx,
                        VecAdd(w, [c \in 1..Len(part) |-> RDiv(part[c], FromInt(f))]))

\* agent_utils.py
get_approx_optimal_weights(G, delta, f) ==
    WeightsFrom(G, delta, f, DefaultChunkSize, 0, Zeros(f))

\* agent_utils3.py: w = G.T @ delta / f
get_approx_optimal_weights3(G, delta, f) ==
    LET t == ChunkTDot(G, delta, 0, Len(G))
    IN [c \in 1..Len(t) |-> RDiv(t[c], FromInt(f))]

\* a tensor with the device it resides on
Devices == {"cpu", "cuda:0", "cuda:1"}
Tensor(device, v) == [device |-> device, v |-> v]

\* tensor.to(device): the same values on the given device
To(t, device) == [t EXCEPT !.device = device]

\* an operation on two tensors raises RuntimeError when they reside on
\* different devices, and otherwise gives its result on their device
OnSameDevice(x, y, v) ==
    IF x.device # y.device THEN Raise(RuntimeError) ELSE Ok(Tensor(x.device, v))

\* agent_utils.py, get_approx_optimal_weights on placed tensors:
\* delta = delta.to(G.device) comes first
PlacedWeights(G, delta, f) ==
    OnSameDevice(G, To(delta, G.device),
                 get_approx_optimal_weights(G.v, To(delta, G.device).v, f))

\* agent_utils3.py, get_approx_optimal_weights on placed tensors:
\* G = G.to(device) and delta = delta.to(device) come first
PlacedWeights3(G, delta, f, device) ==
    OnSameDevice(To(G, device), To(delta, device),
                 get_approx_optimal_weights3(To(G, device).v, To(delta, device).v, f))

\* ------------------------------------------------------------------ Server
Algos == {"fedavg", "fedsgd"}
Lr == <<1, 2>>

\* torch keeps one default generator per device, and randn on a device
\* draws from that device's generator; torch.manual_seed seeds them all alike
Seeded(seed) == [device \in Devices |-> seed]

\* the generators g after a draw on `device` left that device's in state h
Advanced(g, device, h) == [g EXCEPT ![device] = h]

\* agent_utils.py, Server.__init__; a is the configuration, g the states of
\* the random generators; the first matrix gets id 1.  The matrix is drawn
\* on "cpu", the default of generate_gaussian_matrix; the model, the global
\* vector and the matrix are all moved to `device`.
ServerInit(model, a, g, device) ==
    LET flat == get_flatten_model_param(model)
        gen == generate_gaussian_matrix(Len(flat.val), a.f, g["cpu"])
    IN IF flat.err # "" THEN flat
       ELSE [self |-> [model |-> model,
                       device |-> device, device_1 |-> None, device_2 |-> None,
                       flatten_params |-> flat.val,
                       num_arb_participation |-> 0,
                       num_uni_participation |-> 0,
                       momentum |-> Zeros(Len(flat.val)),
                       G |-> Matrix(1, gen.m, device), G1 |-> NoMatrix, G2 |-> NoMatrix],
             rng |-> Advanced(g, "cpu", gen.rng)]

\* agent_utils3.py, Server.__init__: the model and the global vector are on
\* `device`, G1 is drawn from the generator of device_1 and G2 from the
\* generator of device_2, as the draw of G1 left the generators
ServerInit3(model, a, g, device_1, device_2, device) ==
    LET flat == get_flatten_model_param(model)
        d == Len(flat.val)
        gen1 == generate_gaussian_matrix3(d, a.f, g[device_1])
        g1 == Advanced(g, device_1, gen1.rng)
        gen2 == generate_gaussian_matrix3(d, a.f, g1[device_2])
    IN IF flat.err # "" THEN flat
       ELSE [self |-> [model |-> model,
                       device |-> device, device_1 |-> device_1, device_2 |-> device_2,
                       flatten_params |-> flat.val,
                       num_arb_participation |-> 0,
                       num_uni_participation |-> 0,
                       momentum |-> Zeros(d),
                       G |-> NoMatrix,
                       G1 |-> Matrix(1, gen1.m, device_1),
                       G2 |-> Matrix(2, gen2.m, device_2)],
             rng |-> Advanced(g1, device_2, gen2.rng)]

\* Gw.mul_(args.lr / len(clients))
ClientScale(lr, nclients, i) == RDiv(lr, FromInt(nclients))

\* a matrix object as the tensor it is
PlacedG(M) == Tensor(M.device, M.m)

\* self.G @ w.to(self.device), w being what get_approx_optimal_weights gave
Projected(self, w) ==
    IF w.err # "" THEN w
    ELSE OnSameDevice(PlacedG(self.G), To(w.val, self.device),
                      MatVec(self.G.m, w.val.v))

\* Gw = self.G @ get_approx_optimal_weights(G=self.G, delta=delta).to(self.device)
Reconstructed(self, a, delta) ==
    Projected(self, PlacedWeights(PlacedG(self.G), delta, a.f))

\* mse = torch.mean((delta - Gw) ** 2): delta is where the client keeps its
\* model_grad, Gw on the server's device; nothing migrates either of them
MeanSquaredError(delta, Gw) ==
    OnSameDevice(delta, Gw,
                 RDiv(RSum([q \in 1..Len(Gw.v) |->
                               RMul(RSub(delta.v[q], Gw.v[q]), RSub(delta.v[q], Gw.v[q]))],
                           Len(Gw.v)),
                      FromInt(Len(Gw.v))))

\* the client loop left by an exception: what was folded stays folded
Aborted(self, ev, error) == [self |-> self, ev |-> ev, error |-> error]

RECURSIVE FoldClients(_, _, _, _, _)
\* the body of the client loop for client i, Gw being the reconstruction of
\* its model_grad, and the loop from client i + 1 on
FoldOne(self, a, deltas, i, ev, Gw) ==
    IF Gw.err # "" THEN Aborted(self, ev, Gw.err)
    ELSE IF MeanSquaredError(deltas[i], Gw.val).err # ""
    THEN Aborted(self, ev, MeanSquaredError(deltas[i], Gw.val).err)
    ELSE FoldClients([self EXCEPT !.flatten_params =
                         VecSub(self.flatten_params,
                                VecScale(ClientScale(a.lr, Len(deltas), i), Gw.val.v))],
                     a, deltas, i + 1,
                     Append(ev, [e |-> "fold", ids |-> {self.G.id}, client |-> i]))

\* agent_utils.py, the client loop of avg_clients from client i on.
\* self is the server, a the configuration, deltas the clients' model_grad
\* tensors in list order; ev logs the matrix each client was compressed with.
FoldClients(self, a, deltas, i, ev) ==
    IF i > Len(deltas) THEN [self |-> self, ev |-> ev, error |-> None]
    ELSE FoldOne(self, a, deltas, i, ev, Reconstructed(self, a, deltas[i]))

RECURSIVE FoldClients3(_, _, _, _, _)
\* agent_utils3.py, the client loop of avg_clients from client i on
\* every operand is moved before it is used: delta to device_1 and device_2,
\* Gw_2 to device_1, Gw to the server's device; no step can meet two devices
FoldClients3(self, a, deltas, i, ev) ==
    IF i > Len(deltas) THEN [self |-> self, ev |-> ev, error |-> None]
    ELSE LET delta_1 == To(deltas[i], self.device_1)
             delta_2 == To(delta_1, self.device_2)
             w_1 == get_approx_optimal_weights3(self.G1.m, delta_1.v, a.f)
             w_2 == get_approx_optimal_weights3(self.G2.m, delta_2.v, a.f)
             Gw_1 == MatVec(self.G1.m, w_1)
             Gw_2 == MatVec(self.G2.m, w_2)
             Gw == VecAdd(Gw_1, Gw_2)
             upd == VecScale(ClientScale(a.lr, Len(deltas), i), Gw)
         IN FoldClients3([self EXCEPT !.flatten_params = VecSub(self.flatten_params, upd)],
                         a, deltas, i + 1,
                         Append(ev, [e |-> "fold", ids |-> {self.G1.id, self.G2.id}, client |-> i]))

\* what avg_clients has done so far when nothing was folded
Untouched(self) == [self |-> self, ev |-> <<>>, error |-> None]

\* avg_clients left by an exception: nothing more is done
Failed(r, g, error) == [self |-> r.self, ev |-> r.ev, rng |-> g, error |-> error]

\* the tail of avg_clients in agent_utils.py: self.G = generate_gaussian_matrix(...);
\* r is the server and the log so far, g the generators before, gen the
\* matrix drawn on "cpu" and the state of that generator after
SetMatrix(r, g, gen) ==
    [self |-> [r.self EXCEPT !.G = Matrix(r.self.G.id + 1, gen.m, r.self.device)],
     ev |-> Append(r.ev, [e |-> "regen", ids |-> {r.self.G.id + 1}, client |-> 0]),
     rng |-> Advanced(g, "cpu", gen.rng),
     error |-> None]

Regenerate(r, a, g) ==
    IF r.error # None THEN Failed(r, g, r.error)
    ELSE IF size_of_flat(r.self.model).err # "" THEN Failed(r, g, RuntimeError)
    ELSE SetMatrix(r, g, generate_gaussian_matrix(size_of_flat(r.self.model).val, a.f,
                                                  g["cpu"]))

\* set_flatten_model_back(self.model, self.flatten_params) after the client
\* loop, unless an exception left the loop; the model and the vector are
\* both on the server's device
WriteBack(fr) ==
    IF fr.error # None THEN fr
    ELSE
    [self |-> [fr.self EXCEPT !.model =
                  set_flatten_model_back(fr.self.model, fr.self.flatten_params).model],
     ev |-> Append(fr.ev, [e |-> "unflatten", ids |-> {}, client |-> 0]),
     error |-> set_flatten_model_back(fr.self.model, fr.self.flatten_params).error]

\* the fedavg branch of avg_clients in agent_utils.py
FoldAndWriteBack(self, a, deltas, ev) ==
    WriteBack(FoldClients(self, a, deltas, 1, ev))

avg_clients_anyAlgo(self, a, deltas, g) ==
    Regenerate(FoldAndWriteBack(self, a, deltas, <<>>), a, g)

\* agent_utils.py, Server.avg_clients; g is the state of the random generator
avg_clients(self, a, deltas, g) ==
    Regenerate(IF a.algo = "fedavg"
               THEN FoldAndWriteBack(self, a, deltas, <<>>)
               ELSE Untouched(self), a, g)

\* the tail of avg_clients in agent_utils3.py: G1 and G2 are drawn anew; g1
\* is the generators after the draw of G1, gen2 the second matrix and the
\* state of the generator of device_2 after it
SetMatrices3(r, g1, gen1, gen2) ==
    [self |-> [r.self EXCEPT !.G1 = Matrix(r.self.G2.id + 1, gen1.m, r.self.device_1),
                             !.G2 = Matrix(r.self.G2.id + 2, gen2.m, r.self.device_2)],
     ev |-> Append(r.ev, [e |-> "regen", ids |-> {r.self.G2.id + 1, r.self.G2.id + 2},
                          client |-> 0]),
     rng |-> Advanced(g1, r.self.device_2, gen2.rng),
     error |-> None]

\* the second matrix is drawn from the generator of device_2, g1 being the
\* generators as the draw of the first left them
SecondOf(r, a, g1, gen1) ==
    SetMatrices3(r, g1, gen1,
                 generate_gaussian_matrix3(size_of_flat(r.self.model).val, a.f,
                                           g1[r.self.device_2]))

\* gen1 is the first matrix, drawn from the generator of device_1
FirstOf(r, a, g, gen1) ==
    SecondOf(r, a, Advanced(g, r.self.device_1, gen1.rng), gen1)

Regenerate3(r, a, g) ==
    IF r.error # None THEN Failed(r, g, r.error)
    ELSE IF size_of_flat(r.self.model).err # "" THEN Failed(r, g, RuntimeError)
    ELSE FirstOf(r, a, g, generate_gaussian_matrix3(size_of_flat(r.self.model).val, a.f,
                                                    g[r.self.device_1]))

\* agent_utils3.py, Server.avg_clients
avg_clients3(self, a, deltas, g) ==
    Regenerate3(IF a.algo = "fedavg"
                THEN WriteBack(FoldClients3(self, a, deltas, 1, <<>>))
                ELSE Untouched(self), a, g)

\* set_flatten_model_back on a model that resides on `device`, x being a
\* placed tensor: p.set_() raises RuntimeError for a source on another
\* device, at the first trainable parameter, before anything is written
SetBackOn(model, device, x) ==
    IF x.device # device /\ TrainableOf(model.params, Len(model.params), "data") # <<>>
    THEN [model |-> model, error |-> RuntimeError]
    ELSE set_flatten_model_back(model, x.v)

\* the agent with what set_flatten_model_back gave
Pulling(self, r) == [self |-> [self EXCEPT !.model = r.model], error |-> r.error]

\* Agent.pull_model_from_server of agent_utils.py: the vector is unflattened
\* into the replica; an exception of set_flatten_model_back leaves the call,
\* the parameters written before it stay written. Only an agent whose device is not "cpu" migrates the
\* vector; an agent on "cpu" hands it over where the server keeps it
pull_model_from_server(self, server_) ==
    IF self.device # "cpu"
    THEN Pulling(self, SetBackOn(self.model, self.device,
                                 To(Tensor(server_.device, server_.flatten_params),
                                    self.device)))
    ELSE Pulling(self, SetBackOn(self.model, self.device,
                                 Tensor(server_.device, server_.flatten_params)))

\* agent_utils3.py: the same with device_1
pull_model_from_server3(self, server_) ==
    IF self.device_1 # "cpu"
    THEN Pulling(self, SetBackOn(self.model, self.device_1,
                                 To(Tensor(server_.device, server_.flatten_params),
                                    self.device_1)))
    ELSE Pulling(self, SetBackOn(self.model, self.device_1,
                                 Tensor(server_.device, server_.flatten_params)))

\* ---------------------------------------------------- determine_sampling
\* strings are sequences of one-character strings
Contains(s, ch) == \E i \in 1..Len(s) : s[i] = ch

RECURSIVE Split(_, _)
\* str.split(sep) for a one-character separator
Split(s, sep) ==
    IF ~Contains(s, sep) THEN <<s>>
    ELSE LET i == CHOOSE j \in 1..Len(s) :
                     s[j] = sep /\ \A h \in 1..(j - 1) : s[h] # sep
         IN <<SubSeq(s, 1, i - 1)>> \o Split(SubSeq(s, i + 1, Len(s)), sep)

uniform == <<"u", "n", "i", "f", "o", "r", "m">>
powd == <<"p", "o", "w", "d">>
random == <<"r", "a", "n", "d", "o", "m">>
Join(a, b) == a \o <<"_">> \o b

\* r is the value random.random() returns, in [0, 1)
determine_sampling_lessEq(q, sampling_type, r) ==
    IF Contains(sampling_type, "_")
    THEN LET sampling_methods == Split(sampling_type, "_")
         IN IF ~RLess(q, r) THEN uniform ELSE sampling_methods[2]
    ELSE sampling_type

determine_sampling(q, sampling_type, r) ==
    IF Contains(sampling_type, "_")
    THEN LET sampling_methods == Split(sampling_type, "_")
         IN IF RLess(r, q) THEN uniform ELSE sampling_methods[2]
    ELSE sampling_type

\* =========================================================== state machine
VARIABLES
    args,          \* the parsed configuration: algo, f, lr
    variant,       \* "single": agent_utils.py, "split": agent_utils3.py
    train_loader,  \* per agent, the targets of its batches in loader order
    server,        \* the Server object
    agent,         \* per agent, the Agent object
    call,          \* log of the last train_k_step_fedavg call
    round,         \* log of the last avg_clients call
    op,            \* the last operation and what it returned
    nops,          \* number of operations performed
    rng,           \* states of torch's random generators, one per device
    metric,        \* a Metric object on its own
    metric_log,    \* the values it was updated with
    metric_ret,    \* what the last read of avg gave
    sampling,      \* the last determine_sampling call
    history,       \* per agent, what each of its train_k_step_fedavg calls did
    flat,          \* a model on its own and the last flatten/unflatten on it
    placed         \* the last get_approx_optimal_weights call on placed tensors

vars == <<args, variant, train_loader, server, agent, call, round, op, nops, rng,
          metric, metric_log, metric_ret, sampling, history, flat, placed>>

fedVars == <<args, variant, train_loader, server, agent, call, round, op, nops, rng,
             history>>
metricVars == <<metric, metric_log, metric_ret>>
\* the variables of the helpers that are exercised on their own
sideVars == <<metric, metric_log, metric_ret, sampling, flat, placed>>

FValues == {F}
Seeds == 1..MaxSeed
Variants == {"single", "split"}

\* the loaders handed to the agents: n batches each
TrainLoaders(n) ==
    [a \in Agents |-> [i \in 1..n |-> FromInt(IF a = "a1" THEN i ELSE 3 - i)]]

TestLoader == <<FromInt(1)>>

ServerModel == NewModel(1, 5, 2)
AgentModel(a) == IF a = "a1" THEN NewModel(0, 7, 0) ELSE NewModel(3, 7, -1)
D == Len(get_flatten_model_param(ServerModel).val)

\* where the simulation puts the server and the agents: all on the host, or
\* the server and a1 on an accelerator and a2 on the host
Colocated == [server |-> "cpu", a1 |-> "cpu", a2 |-> "cpu"]
Placements ==
    {Colocated, [server |-> "cuda:0", a1 |-> "cuda:0", a2 |-> "cpu"]}

\* a1 alone on an accelerator: the placement in which a pull migrates
AgentAhead == [server |-> "cpu", a1 |-> "cuda:0", a2 |-> "cpu"]

\* the second device of the split variant
Device2 == "cuda:1"

\* the agents as their module's constructor builds them
Built(v, p) ==
    [a \in Agents |-> IF v = "single" THEN AgentInit(AgentModel(a), p[a])
                      ELSE AgentInit3(AgentModel(a), p[a], Device2)]

\* the server as its module's constructor builds it; the split server draws
\* G1 where a1 computes and G2 on the second device
ServerBuilt(v, a, g, p) ==
    IF v = "single" THEN ServerInit(ServerModel, a, g, p.server)
    ELSE ServerInit3(ServerModel, a, g, p.a1, Device2, p.server)

NoCall == [agent |-> None]
NoRound == [n |-> -1, ev |-> <<>>, used_before |-> {}, used |-> {}]
NoOp == [name |-> "init", agent |-> None, ret |-> NoValue]
NoSampling == [called |-> FALSE, q |-> Zero, sampling_type |-> <<>>, r |-> Zero, ret |-> <<>>]
NoHistory == [a \in Agents |-> <<>>]
NoFlat == [op |-> "init", prev |-> "init", nops |-> 0,
           model |-> [params |-> <<>>], before |-> [params |-> <<>>],
           vector |-> <<>>, error |-> None, out |-> NoValue]
NoPlaced == [called |-> FALSE]
Unread == Raise("unread")

MetricIdle ==
    /\ metric = MetricInit("m")
    /\ metric_log = <<>>
    /\ metric_ret = Unread

FlatIdle == flat = NoFlat

PlacedIdle == placed = NoPlaced

FedIdle ==
    /\ args = [algo |-> "fedavg", f |-> 1, lr |-> Lr]
    /\ variant = "single"
    /\ train_loader = TrainLoaders(0)
    /\ rng = Seeded(0)
    /\ server = ServerBuilt(variant, args, rng, Colocated).self
    /\ agent = Built(variant, Colocated)
    /\ call = NoCall
    /\ round = NoRound
    /\ op = NoOp
    /\ nops = 0
    /\ history = NoHistory

\* the objects right after construction
Init ==
    /\ args \in [algo : Algos, f : FValues, lr : {Lr}]
    /\ variant \in Variants
    /\ \E n \in 0..MaxN : train_loader = TrainLoaders(n)
    /\ \E seed \in Seeds, p \in Placements :
          /\ server = ServerBuilt(variant, args, Seeded(seed), p).self
          /\ rng = ServerBuilt(variant, args, Seeded(seed), p).rng
          /\ agent = Built(variant, p)
    /\ call = NoCall
    /\ round = NoRound
    /\ op = NoOp
    /\ nops = 0
    /\ history = NoHistory
    /\ MetricIdle
    /\ sampling = NoSampling
    /\ FlatIdle
    /\ PlacedIdle

Done(name, a, ret) ==
    /\ op' = [name |-> name, agent |-> a, ret |-> ret]
    /\ nops' = nops + 1

\* what a method that returns None gives: nothing, or the exception raised
Outcome(error) == IF error = None THEN NoValue ELSE Raise(error)

\* r is what the call gave: the agent afterwards and the exception, if any
Pull(a, r) ==
    /\ agent' = [agent EXCEPT ![a] = r.self]
    /\ Done("pull_model_from_server", a, Outcome(r.error))

PullModel(a) ==
    /\ nops < MaxOps
    /\ Pull(a, IF variant = "single" THEN pull_model_from_server(agent[a], server)
               ELSE pull_model_from_server3(agent[a], server))
    /\ UNCHANGED <<args, variant, train_loader, server, call, round, rng,
                   history, sideVars>>

PullG(a) ==
    /\ nops < MaxOps
    /\ agent' = [agent EXCEPT ![a] = pull_G(agent[a], server).self]
    /\ Done("pull_G", a, Outcome(pull_G(agent[a], server).error))
    /\ UNCHANGED <<args, variant, train_loader, server, call, round, rng,
                   history, sideVars>>

\* the factors decay_lr_in_optimizer is called with
Gammas == {<<1, 2>>, <<2, 1>>}

DecayLr(a, gamma) ==
    /\ nops < MaxOps
    /\ agent' = [agent EXCEPT ![a] = decay_lr_in_optimizer(agent[a], gamma)]
    /\ Done("decay_lr_in_optimizer", a, NoValue)
    /\ UNCHANGED <<args, variant, train_loader, server, call, round, rng,
                   history, sideVars>>

\* reset_epoch called on the agent directly
ResetEpoch(a) ==
    /\ nops < MaxOps
    /\ agent' = [agent EXCEPT ![a] = reset_epoch(agent[a])]
    /\ Done("reset_epoch", a, NoValue)
    /\ UNCHANGED <<args, variant, train_loader, server, call, round, rng,
                   history, sideVars>>

\* what a train_k_step_fedavg call did, as history keeps it: the batches it
\* processed with their losses and accuracies, whether next() raised, what
\* it returned and the epoch counter it left
CallRecord(r) ==
    [batches |-> r.batches, losses |-> r.losses, accs |-> r.accs,
     exhausted |-> r.exhausted, ret |-> r.ret, epoch |-> r.self.epoch]

\* agent a runs train_k_step_fedavg(k); r is what the call did
\* the log of a train_k_step_fedavg(k) call of agent a: what the agent held
\* before it and what the call did
CallLog(a, k, before, r) ==
    [agent |-> a, k |-> k,
     pos0 |-> before.data_generator,
     n0 |-> before.train_loss.n,
     epoch0 |-> before.epoch,
     grad0 |-> before.model_grad,
     batches |-> r.batches, grads |-> r.grads,
     losses |-> r.losses, accs |-> r.accs,
     exhausted |-> r.exhausted]

TrainCommit(a, k, r) ==
    /\ agent' = [agent EXCEPT ![a] = r.self]
    /\ call' = CallLog(a, k, agent[a], r)
    /\ Done("train_k_step_fedavg", a, r.ret)
    /\ history' = [history EXCEPT ![a] = Append(@, CallRecord(r))]

Train(a, k) ==
    /\ TrainCommit(a, k, train_k_step_fedavg(agent[a], train_loader[a], k))
    /\ UNCHANGED <<args, variant, train_loader, server, round, rng, sideVars>>

TrainKSteps(a, k) ==
    /\ nops < MaxOps
    /\ Train(a, k)

RECURSIVE WithCalls(_, _, _)
\* the history after the first n of the calls made
WithCalls(h, calls, n) ==
    IF n = 0 THEN h
    ELSE [WithCalls(h, calls, n - 1) EXCEPT
             ![calls[n].agent] = Append(@, CallRecord(calls[n].r))]

LocalCommit(k, r) ==
    /\ agent' = r.agent
    /\ call' = IF r.calls = <<>> THEN call
               ELSE CallLog(r.calls[Len(r.calls)].agent, k,
                            r.calls[Len(r.calls)].before, r.calls[Len(r.calls)].r)
    /\ history' = WithCalls(history, r.calls, Len(r.calls))
    /\ Done("local_update_selected_clients_fedavg", None, r.ret)

AgentEval(a) ==
    /\ nops < MaxOps
    /\ LET r == eval(agent[a].model, TestLoader)
       IN /\ agent' = [agent EXCEPT ![a].model = r.model]
          /\ Done("eval", a, r.ret)
    /\ UNCHANGED <<args, variant, train_loader, server, call, round, rng,
                   history, sideVars>>

ServerEval ==
    /\ nops < MaxOps
    /\ LET r == eval(server.model, TestLoader)
       IN /\ server' = [server EXCEPT !.model = r.model]
          /\ Done("eval", "server", r.ret)
    /\ UNCHANGED <<args, variant, train_loader, agent, call, round, rng,
                   history, sideVars>>

\* the lists of clients a round may be run with
ClientLists ==
    {c \in UNION {[1..n -> Agents] : n \in 0..MaxClients} :
        \A i, j \in 1..Len(c) : i # j => c[i] # c[j]}

\* client.model_grad as the tensor it is: on the device of the replica it
\* was shaped after
model_grad_of(self) ==
    Tensor(IF self.device # None THEN self.device ELSE self.device_1, self.model_grad)

Deltas(clients) == [i \in 1..Len(clients) |-> model_grad_of(agent[clients[i]])]

FoldIds(ev) == UNION {ev[i].ids : i \in {j \in 1..Len(ev) : ev[j].e = "fold"}}

RoundLog(clients, r, held) ==
    [n |-> Len(clients), clients |-> clients, deltas |-> Deltas(clients),
     pre |-> server, rng0 |-> rng, held |-> held, ev |-> r.ev,
     used_before |-> round.used_before \cup round.used,
     used |-> FoldIds(r.ev)]

\* the round's result r becomes the state of the server and of the generator
Commit(r, clients, held) ==
    /\ server' = r.self
    /\ rng' = r.rng
    /\ round' = RoundLog(clients, r, held)
    /\ Done("avg_clients", "server", Outcome(r.error))

AvgClients(clients) ==
    /\ nops < MaxOps
    /\ variant = "single"
    /\ Commit(avg_clients(server, args, Deltas(clients), rng), clients, {server.G.id})
    /\ UNCHANGED <<args, variant, train_loader, agent, call,
                   history, sideVars>>

AvgClients3(clients) ==
    /\ nops < MaxOps
    /\ variant = "split"
    /\ Commit(avg_clients3(server, args, Deltas(clients), rng), clients,
              {server.G1.id, server.G2.id})
    /\ UNCHANGED <<args, variant, train_loader, agent, call,
                   history, sideVars>>

\* the selected clients run local_update steps each, in list order
LocalUpdate(clients, k) ==
    /\ nops < MaxOps
    /\ LocalCommit(k, local_update_selected_clients_fedavg(agent, train_loader,
                                                            clients, k))
    /\ UNCHANGED <<args, variant, train_loader, server, round, rng, sideVars>>

Next ==
    \/ \E a \in Agents : PullModel(a)
    \/ \E a \in Agents : PullG(a)
    \/ \E a \in Agents, gamma \in Gammas : DecayLr(a, gamma)
    \/ \E a \in Agents : ResetEpoch(a)
    \/ \E a \in Agents, k \in 1..MaxK : TrainKSteps(a, k)
    \/ \E a \in Agents : AgentEval(a)
    \/ ServerEval
    \/ \E clients \in ClientLists : AvgClients(clients)
    \/ \E clients \in ClientLists : AvgClients3(clients)

Spec == Init /\ [][Next]_vars

\* -------------------------- the split server over every configured width
\* agent_utils3.py with args.f anywhere in 1..MaxWidth; every agent has a
\* loader of one batch
InitSplit ==
    /\ args \in [algo : Algos, f : 1..MaxWidth, lr : {Lr}]
    /\ variant = "split"
    /\ train_loader = TrainLoaders(1)
    /\ \E seed \in Seeds, p \in Placements :
          /\ server = ServerBuilt(variant, args, Seeded(seed), p).self
          /\ rng = ServerBuilt(variant, args, Seeded(seed), p).rng
          /\ agent = Built(variant, p)
    /\ call = NoCall
    /\ round = NoRound
    /\ op = NoOp
    /\ nops = 0
    /\ history = NoHistory
    /\ MetricIdle
    /\ sampling = NoSampling
    /\ FlatIdle
    /\ PlacedIdle

NextSplit ==
    \/ \E a \in Agents : TrainKSteps(a, 1)
    \/ \E clients \in ClientLists : AvgClients3(clients)

SpecSplit == InitSplit /\ [][NextSplit]_vars

\* ------------------------------------ rounds as the simulation runs them
\* the selected clients pull the global model, train locally through
\* local_update_selected_clients_fedavg, and the server averages them
NextRound ==
    \/ \E a \in Agents : PullModel(a)
    \/ \E clients \in ClientLists, k \in 1..MaxK : LocalUpdate(clients, k)
    \/ \E clients \in ClientLists : AvgClients(clients)
    \/ \E clients \in ClientLists : AvgClients3(clients)

SpecRound == Init /\ [][NextRound]_vars

\* ------------------------------------- one agent over many training calls
Trainee == "a1"

InitTrain ==
    /\ args = [algo |-> "fedavg", f |-> 1, lr |-> Lr]
    /\ variant = "single"
    /\ \E n \in 0..MaxN : train_loader = TrainLoaders(n)
    /\ rng = Seeded(0)
    /\ server = ServerBuilt(variant, args, rng, Colocated).self
    /\ agent = Built(variant, Colocated)
    /\ call = NoCall
    /\ round = NoRound
    /\ op = NoOp
    /\ nops = 0
    /\ history = NoHistory
    /\ MetricIdle
    /\ sampling = NoSampling
    /\ FlatIdle
    /\ PlacedIdle

TrainCall(k) ==
    /\ Len(history[Trainee]) < MaxCalls
    /\ Train(Trainee, k)

NextTrain == \E k \in 1..MaxK : TrainCall(k)

SpecTrain == InitTrain /\ [][NextTrain]_vars

\* ------------------------------------------------- Metric on its own
MetricVals == [tensor : BOOLEAN, v : {FromInt(2), FromInt(4), FromInt(5), FromInt(6)}]

InitMetric ==
    /\ FedIdle
    /\ MetricIdle
    /\ sampling = NoSampling
    /\ FlatIdle
    /\ PlacedIdle

MetricUpdate(val) ==
    /\ Len(metric_log) < MaxUpdates
    /\ metric' = Metric_update(metric, val)
    /\ metric_log' = Append(metric_log, val)
    /\ metric_ret' = Unread
    /\ UNCHANGED <<fedVars, sampling, flat, placed>>

MetricAvg ==
    /\ metric_ret = Unread
    /\ metric_ret' = Metric_avg(metric)
    /\ UNCHANGED <<fedVars, metric, metric_log, sampling, flat, placed>>

NextMetric ==
    \/ \E val \in MetricVals : MetricUpdate(val)
    \/ MetricAvg

SpecMetric == InitMetric /\ [][NextMetric]_vars

\* ------------------------------------------- determine_sampling on its own
SamplingTypes ==
    {Join(uniform, powd), Join(powd, uniform), Join(random, powd),
     Join(Join(uniform, powd), random), uniform, powd, random}

\* q in [0, 1] and the draws random.random() may return, in [0, 1)
QValues == {Rat(i, Resolution) : i \in 0..Resolution}
Draws == {Rat(i, Resolution) : i \in 0..(Resolution - 1)}

InitSampling ==
    /\ FedIdle
    /\ MetricIdle
    /\ sampling = NoSampling
    /\ FlatIdle
    /\ PlacedIdle

DetermineSampling(q, sampling_type, r) ==
    /\ sampling' = [called |-> TRUE, q |-> q, sampling_type |-> sampling_type,
                    r |-> r, ret |-> determine_sampling(q, sampling_type, r)]
    /\ UNCHANGED <<fedVars, metricVars, flat, placed>>

NextSampling ==
    \E q \in QValues, sampling_type \in SamplingTypes, r \in Draws :
        DetermineSampling(q, sampling_type, r)

SpecSampling == InitSampling /\ [][NextSampling]_vars

\* ------------------------------------- flatten and unflatten on their own
\* the shapes a model may have: per parameter, its element count and its
\* requires_grad flag
Shapes ==
    UNION {[1..n -> [numel : 1..MaxNumel, requires_grad : BOOLEAN]] : n \in 1..MaxParams}

\* a model of the given shape; element e of parameter i holds 10 * i + e, and
\* the second parameter, when there is one, already holds a gradient
ModelOf(shape) ==
    [params |-> [i \in 1..Len(shape) |->
        [data |-> [e \in 1..shape[i].numel |-> FromInt(10 * i + e)],
         requires_grad |-> shape[i].requires_grad,
         grad |-> IF i = 2 THEN [e \in 1..shape[i].numel |-> One] ELSE NoGrad]]]

\* the flat vector of length n handed to set_flatten_model_back
VectorOf(n) == [i \in 1..n |-> FromInt(100 + i)]

\* the offset `start` of set_flatten_model_back after its loop: the number of
\* elements of the trainable parameters
TrainableCount(model) ==
    LET RECURSIVE Upto(_)
        Upto(n) == IF n = 0 THEN 0
                   ELSE Upto(n - 1) + (IF model.params[n].requires_grad
                                       THEN numel(model.params[n]) ELSE 0)
    IN Upto(Len(model.params))

InitFlatten ==
    /\ FedIdle
    /\ MetricIdle
    /\ sampling = NoSampling
    /\ PlacedIdle
    /\ \E shape \in Shapes :
          flat = [NoFlat EXCEPT !.model = ModelOf(shape), !.before = ModelOf(shape)]

\* out = get_flatten_model_param(model), or the error it raised
Flatten ==
    /\ flat.nops < MaxFlatOps
    /\ flat' = [flat EXCEPT !.op = "flatten", !.prev = flat.op, !.nops = @ + 1,
                            !.out = get_flatten_model_param(flat.model)]
    /\ UNCHANGED <<fedVars, metricVars, sampling, placed>>

\* the model after set_flatten_model_back(model, x) and the error it raised
Unflattened(x, r) ==
    [flat EXCEPT !.op = "unflatten", !.prev = flat.op, !.nops = @ + 1,
                 !.before = flat.model,
                 !.vector = x, !.model = r.model, !.error = r.error]

\* set_flatten_model_back(model, x_flattern)
Unflatten(x_flattern) ==
    /\ flat.nops < MaxFlatOps
    /\ flat' = Unflattened(x_flattern, set_flatten_model_back(flat.model, x_flattern))
    /\ UNCHANGED <<fedVars, metricVars, sampling, placed>>

\* set_all_param_zero(model)
ZeroAll ==
    /\ flat.nops < MaxFlatOps
    /\ flat' = [flat EXCEPT !.op = "zero", !.prev = flat.op, !.nops = @ + 1,
                            !.before = flat.model,
                            !.model = set_all_param_zero(flat.model)]
    /\ UNCHANGED <<fedVars, metricVars, sampling, placed>>

\* the vectors tried on a model: what flatten last gave, and fresh vectors
\* of every length up to one more than the model takes
NextFlatten ==
    \/ Flatten
    \/ \E n \in 0..(TrainableCount(flat.model) + 1) : Unflatten(VectorOf(n))
    \/ flat.op = "flatten" /\ flat.out.err = "" /\ Unflatten(flat.out.val)
    \/ ZeroAll

SpecFlatten == InitFlatten /\ [][NextFlatten]_vars

\* --------------------------- an agent whose network is not the server's
\* the networks an agent can be built on: the constructor raises on a
\* network without a trainable parameter
Networks == {shape \in Shapes : get_flatten_model_param(ModelOf(shape)).err = ""}

\* agent a1 is built on any network, a2 on a replica of the server's, in
\* every placement
InitPull ==
    /\ args = [algo |-> "fedavg", f |-> F, lr |-> Lr]
    /\ variant \in Variants
    /\ train_loader = TrainLoaders(0)
    /\ \E shape \in Networks, p \in Placements \cup {AgentAhead} :
          /\ server = ServerBuilt(variant, args, Seeded(1), p).self
          /\ rng = ServerBuilt(variant, args, Seeded(1), p).rng
          /\ agent = [Built(variant, p) EXCEPT
                         !["a1"] = IF variant = "single" THEN AgentInit(ModelOf(shape), p.a1)
                                   ELSE AgentInit3(ModelOf(shape), p.a1, Device2)]
    /\ call = NoCall
    /\ round = NoRound
    /\ op = NoOp
    /\ nops = 0
    /\ history = NoHistory
    /\ MetricIdle
    /\ sampling = NoSampling
    /\ FlatIdle
    /\ PlacedIdle

NextPull == \E a \in Agents : PullModel(a)

SpecPull == InitPull /\ [][NextPull]_vars

\* ------------------------------- get_approx_optimal_weights on its own
\* the matrices and the gradients the function is tried on
PlacedMatrices == {Randn(D, f, g).m : f \in 1..F, g \in 0..MaxDraw}
PlacedDeltas == {<<FromInt(x), FromInt(y)>> : x, y \in {0, 1}}

InitPlaced ==
    /\ FedIdle
    /\ MetricIdle
    /\ sampling = NoSampling
    /\ FlatIdle
    /\ PlacedIdle

\* the call as the single-matrix server makes it: f is the matrix's width
ApproxWeights(G, delta) ==
    /\ ~placed.called
    /\ placed' = [called |-> TRUE, G |-> G, delta |-> delta, device |-> G.device,
                  ret |-> PlacedWeights(G, delta, NCols(G.v))]
    /\ UNCHANGED <<fedVars, metricVars, sampling, flat>>

\* the call as the split server makes it, with the device to compute on;
\* f is the configured total width, the matrix holds f // 2 columns
ApproxWeights3(G, delta, f, device) ==
    /\ ~placed.called
    /\ placed' = [called |-> TRUE, G |-> G, delta |-> delta, device |-> device,
                  ret |-> PlacedWeights3(G, delta, f, device)]
    /\ UNCHANGED <<fedVars, metricVars, sampling, flat>>

NextPlaced ==
    \/ \E m \in PlacedMatrices, v \in PlacedDeltas, gd, dd \in Devices :
          ApproxWeights(Tensor(gd, m), Tensor(dd, v))
    \/ \E m \in PlacedMatrices, v \in PlacedDeltas, gd, dd, device \in Devices :
          \E f \in {2 * NCols(m), 2 * NCols(m) + 1} :
              ApproxWeights3(Tensor(gd, m), Tensor(dd, v), f, device)

SpecPlaced == InitPlaced /\ [][NextPlaced]_vars

\* ================================================================== claims
Trained == op.name = "train_k_step_fedavg"
Averaged == op.name = "avg_clients"
Pulled == op.name = "pull_model_from_server"

\* mean of a non-empty sequence of rationals
Mean(xs) == RDiv(RSum(xs, Len(xs)), FromInt(Len(xs)))

\* C1: on a loader of N >= 1 batches and a cursor at batch 0, a call with
\* k > N processes exactly the batches 0..N-1, increments the epoch counter
\* exactly once, returns the loss and accuracy averaged over those N batches,
\* and leaves the cursor so that the next batch handed out is batch 0.
C1_OverrunEndsOneEpoch ==
    Trained =>
        LET a == call.agent
            N == Len(train_loader[a])
        IN (N >= 1 /\ call.pos0 = 0 /\ call.k > N) =>
              /\ agent[a].epoch = call.epoch0 + 1
              /\ call.batches = [i \in 1..N |-> i - 1]
              /\ op.ret = Ok(<<Mean(call.losses), Mean(call.accs)>>)
              /\ ~GenNext(agent[a].data_generator, train_loader[a]).stop
              /\ GenNext(agent[a].data_generator, train_loader[a]).batch_idx = 0

C1_Witness ==
    /\ Trained
    /\ Len(train_loader[call.agent]) = 2
    /\ call.pos0 = 0
    /\ call.k = 4
    /\ agent[call.agent].epoch = 1

\* C2: a call in which the batch generator signals exhaustion returns a
\* pair of averages, not an error, and leaves the generator re-armed at
\* batch 0 with fresh running metrics.
C2_ExhaustionIsAbsorbed ==
    (Trained /\ call.exhausted) =>
        /\ op.ret.err = ""
        /\ agent[call.agent].data_generator = 0
        /\ agent[call.agent].train_loss = MetricInit("train_loss")
        /\ agent[call.agent].train_accuracy = MetricInit("train_accuracy")

\* C3: after every call the accumulated gradient is the sum of the per-step
\* flattened gradients of the batches processed in that call, whatever the
\* buffer held before; it is all-zero when the first batch request hit
\* exhaustion.
C3_GradIsSumOfSteps ==
    Trained =>
        /\ Len(call.grads) = Len(call.batches)
        /\ agent[call.agent].model_grad = VecSumSeq(call.grads, D)
        /\ (call.exhausted /\ call.batches = <<>>)
              => agent[call.agent].model_grad = Zeros(D)

C3_Witness ==
    /\ Trained
    /\ Len(call.grads) >= 2
    /\ call.grad0 # Zeros(D)
    /\ agent[call.agent].model_grad # call.grads[Len(call.grads)]
    /\ agent[call.agent].model_grad # Zeros(D)

\* what one client contributes to the update: (lr / n) * G (G^T delta / f)
Contribution(Gm, delta, f, lr, n) ==
    [r \in 1..Len(Gm) |->
        RMul(RDiv(lr, FromInt(n)),
             RSum([c \in 1..f |->
                      RMul(FromInt(Gm[r][c]),
                           RDiv(RSum([q \in 1..Len(Gm) |->
                                         RMul(FromInt(Gm[q][c]), delta[q])],
                                     Len(Gm)),
                                FromInt(f)))],
                  f))]

\* C4: in the averaging scheme (single matrix) the call completes, the
\* clients are folded in input order and the global vector after the call is
\* its value before the call minus the sum over the clients of
\* (lr / n) * G (G^T delta_i / F).
C4_FoldSubtractsContributions ==
    (Averaged /\ variant = "single" /\ args.algo = "fedavg") =>
        /\ op.ret = NoValue
        /\ Len(round.ev) >= round.n
        /\ \A i \in 1..round.n :
              round.ev[i].e = "fold" /\ round.ev[i].client = i
        /\ server.flatten_params =
              VecSub(round.pre.flatten_params,
                     VecSumSeq([i \in 1..round.n |->
                                   Contribution(round.pre.G.m, round.deltas[i].v,
                                                args.f, args.lr, round.n)], D))

HeldIds(self) == IF variant = "single" THEN {self.G.id} ELSE {self.G1.id, self.G2.id}

\* C5: in one avg_clients call every client is compressed with the matrix
\* (or pair) the server held when the call began; the matrix is regenerated
\* once, as the last step, after the folded vector was written back into
\* the global model; flatten(global model) is the global vector afterwards;
\* no matrix compresses clients in two rounds.
C5_OneMatrixPerRound ==
    Averaged =>
        LET ev == round.ev
            L == Len(ev)
        IN /\ L >= 1
           /\ ev[L].e = "regen"
           /\ \A i \in 1..(L - 1) : ev[i].e # "regen"
           /\ \A i \in 1..L : ev[i].e = "fold" => ev[i].ids = round.held
           /\ args.algo = "fedavg" =>
                 /\ L = round.n + 2
                 /\ \A i \in 1..round.n : ev[i].e = "fold"
                 /\ ev[L - 1].e = "unflatten"
           /\ get_flatten_model_param(server.model) = Ok(server.flatten_params)
           /\ round.used \cap round.used_before = {}
           /\ HeldIds(server) \cap (round.held \cup round.used \cup round.used_before) = {}

ServerExceptMatrices(self) == [self EXCEPT !.G = NoMatrix, !.G1 = NoMatrix, !.G2 = NoMatrix]

\* C6: when the algorithm is not the averaging scheme, avg_clients changes
\* neither the global vector nor the global model nor any agent: of the
\* server it changes only the projection matrix (or pair), which is new.
C6_NoOpApartFromMatrix ==
    [][(op'.name = "avg_clients" /\ nops' = nops + 1 /\ args.algo # "fedavg") =>
          /\ server'.flatten_params = server.flatten_params
          /\ server'.model = server.model
          /\ ServerExceptMatrices(server') = ServerExceptMatrices(server)
          /\ agent' = agent
          /\ HeldIds(server') \cap HeldIds(server) = {}]_vars

C6_Witness ==
    /\ Averaged /\ args.algo # "fedavg"
    /\ round.n >= 1
    /\ \E i \in 1..round.n : round.deltas[i].v # Zeros(D)

\* C7: pull_model_from_server completes and makes the agent's flattened
\* parameters equal to the server's global vector, and the global vector
\* changes in no operation other than avg_clients.
C7_PullCopiesAndOnlyAvgWrites ==
    /\ [](Pulled =>
            /\ op.ret = NoValue
            /\ get_flatten_model_param(agent[op.agent].model) = Ok(server.flatten_params))
    /\ [][server'.flatten_params # server.flatten_params
            => op'.name = "avg_clients"]_vars

Perms(n) == {p \in [1..n -> 1..n] : \A i, j \in 1..n : i # j => p[i] # p[j]}

RoundResult(self, a, deltas, g) ==
    IF variant = "single" THEN avg_clients(self, a, deltas, g)
    ELSE avg_clients3(self, a, deltas, g)

\* C8: running the round from the same server state with the clients in any
\* other order gives the same server, global vector included.
C8_OrderOfClientsIrrelevant ==
    Averaged =>
        \A p \in Perms(round.n) :
            LET r == RoundResult(round.pre, args,
                                 [i \in 1..round.n |-> round.deltas[p[i]]], round.rng0)
            IN r.self = server /\ r.rng = rng

\* C9: with "uniform_powd", q = 1 always gives "uniform" and q = 0 always
\* gives "powd"; "random", and every name without separator, is returned
\* unchanged for every q.
C9_SamplingEndpoints ==
    sampling.called =>
        /\ (sampling.sampling_type = Join(uniform, powd) /\ sampling.q = One)
              => sampling.ret = uniform
        /\ (sampling.sampling_type = Join(uniform, powd) /\ sampling.q = Zero)
              => sampling.ret = powd
        /\ sampling.sampling_type = random => sampling.ret = random
        /\ ~Contains(sampling.sampling_type, "_")
              => sampling.ret = sampling.sampling_type

C9_Witness ==
    /\ sampling.called
    /\ sampling.sampling_type = Join(uniform, powd)
    /\ sampling.q = Zero
    /\ sampling.r = Zero
    /\ sampling.ret = powd

RECURSIVE SumVals(_)
SumVals(log) == IF log = <<>> THEN Zero
                ELSE RAdd(log[1].v, SumVals(Tail(log)))

\* C10: avg read after n >= 1 updates is the sum of the updated values
\* divided by n (2, 4, 6 give 4; a single tensor 5 gives 5); avg read before
\* any update raises ZeroDivisionError.
C10_AvgIsMean ==
    metric_ret # Unread =>
        /\ metric_log = <<>> => metric_ret = Raise(ZeroDivisionError)
        /\ metric_log # <<>> =>
              /\ metric_ret.err = ""
              /\ RMul(metric_ret.val, FromInt(Len(metric_log))) = SumVals(metric_log)
        /\ [i \in 1..Len(metric_log) |-> metric_log[i].v]
              = <<FromInt(2), FromInt(4), FromInt(6)>> => metric_ret = Ok(FromInt(4))
        /\ metric_log = <<[tensor |-> TRUE, v |-> FromInt(5)]>>
              => metric_ret = Ok(FromInt(5))

C10_Witness ==
    /\ metric_ret = Ok(FromInt(4))
    /\ metric_log = <<Num(FromInt(2)), [tensor |-> TRUE, v |-> FromInt(4)], Num(FromInt(6))>>

\* the value buffers of all parameters of a model, frozen ones included
Values(model) == [i \in 1..Len(model.params) |-> model.params[i].data]

\* the frozen parameters of a model with their positions
Frozen(model) ==
    {<<i, model.params[i]>> : i \in {j \in 1..Len(model.params) :
                                        ~model.params[j].requires_grad}}

\* C11: for every model, flatten gives a vector, of length D, and
\* unflatten(model, flatten(model)) leaves every parameter value unchanged;
\* flatten(model) right after unflatten(model, v) returns v for every v of
\* length D; frozen parameters are left alone by unflatten and left out by
\* flatten.
C11_FlattenRoundTrip ==
    /\ flat.op = "flatten" =>
          (flat.out.err = "" /\ Len(flat.out.val) = TrainableCount(flat.model))
    /\ (flat.op = "unflatten" /\ flat.prev = "flatten" /\ flat.vector = flat.out.val)
          => (flat.error = None /\ Values(flat.model) = Values(flat.before))
    /\ (flat.op = "flatten" /\ flat.prev = "unflatten" /\ flat.error = None
           /\ Len(flat.vector) = TrainableCount(flat.model))
          => flat.out = Ok(flat.vector)
    /\ flat.op = "unflatten" => Frozen(flat.model) = Frozen(flat.before)

\* C12: unflatten fails whenever the vector's length differs from D, for
\* shorter and for longer vectors alike.
C12_LengthMismatchFails ==
    (flat.op = "unflatten" /\ Len(flat.vector) # TrainableCount(flat.before))
        => flat.error # None

\* C14: get_approx_optimal_weights fails when delta and G reside on
\* different devices; it never moves an operand itself.
C14_MisplacedOperandsFail ==
    (placed.called /\ placed.G.device # placed.delta.device) => placed.ret.err # ""

\* C13: in the split variant the widths of G1 and G2 add up to the
\* configured width F, at construction and after every regeneration.
C13_WidthsAddUp ==
    variant = "split" => NCols(server.G1.m) + NCols(server.G2.m) = args.f

\* C15: in a split round each device's weights are scaled by the device's own
\* width, and G1 w1 + G2 w2 is what is folded: the global vector after the
\* round is its value before minus the sum over the clients of
\* (lr / n) * (G1 (G1^T delta / F1) + G2 (G2^T delta / F2)).
C15_ScaledByOwnWidth ==
    (Averaged /\ variant = "split" /\ args.algo = "fedavg" /\ args.f >= 2) =>
        server.flatten_params =
            VecSub(round.pre.flatten_params,
                   VecSumSeq([i \in 1..round.n |->
                                 VecAdd(Contribution(round.pre.G1.m, round.deltas[i].v,
                                                     NCols(round.pre.G1.m), args.lr, round.n),
                                        Contribution(round.pre.G2.m, round.deltas[i].v,
                                                     NCols(round.pre.G2.m), args.lr, round.n))],
                             D))

\* G1 and G2 side by side: row r is row r of G1 followed by row r of G2
ConcatColumns(G1, G2) == [r \in 1..Len(G1) |-> G1[r] \o G2[r]]

\* the single-matrix server holding [G1 G2] in the state the split server had
AsSingle(self) ==
    [self EXCEPT !.G = Matrix(0, ConcatColumns(self.G1.m, self.G2.m), self.device),
                 !.G1 = NoMatrix, !.G2 = NoMatrix]

\* C18: for an even width F, a split round gives the global vector that a
\* single-matrix round gives from the same vector, gradients and learning
\* rate when its D x F matrix is G1 and G2 side by side.
C18_SplitEqualsSingle ==
    (Averaged /\ variant = "split" /\ args.f % 2 = 0) =>
        /\ NCols(ConcatColumns(round.pre.G1.m, round.pre.G2.m)) = args.f
        /\ server.flatten_params =
              avg_clients(AsSingle(round.pre), args, round.deltas, round.rng0)
                  .self.flatten_params

\* C16: for a type made of two names joined by the separator, the result is
\* the first name when the draw is below q and the second name otherwise,
\* hence always one of the two names.
C16_CompoundPicksItsNames ==
    (sampling.called /\ Len(Split(sampling.sampling_type, "_")) = 2) =>
        LET names == Split(sampling.sampling_type, "_")
        IN /\ sampling.ret = IF RLess(sampling.r, sampling.q) THEN names[1] ELSE names[2]
           /\ sampling.ret \in {names[1], names[2]}

RECURSIVE Processed(_, _, _)
\* the field (batches, losses or accs) of the first j calls of a history,
\* one call after the other
Processed(h, j, field) ==
    IF j = 0 THEN <<>> ELSE Processed(h, j - 1, field) \o h[j][field]

\* the epoch counter before call j
EpochBefore(h, j) == IF j = 1 THEN 0 ELSE h[j - 1].epoch

\* the entries of xs from position lo + 1 on
From(xs, lo) == SubSeq(xs, lo + 1, Len(xs))

\* C17: over any sequence of calls on a loader of N >= 1 batches the batches
\* are processed in the order 0, 1, ..., N-1, 0, 1, ...; the epoch counter
\* counts the calls that met exhaustion; such a call ends at the boundary of
\* the epoch and processes nothing of the next one; the averages a call
\* returns cover all batches processed since the last epoch reset.
C17_BatchesInOrderAcrossCalls ==
    \A a \in Agents :
        LET h == history[a]
            N == Len(train_loader[a])
            all == Processed(h, Len(h), "batches")
        IN N >= 1 =>
             /\ \A i \in 1..Len(all) : all[i] = (i - 1) % N
             /\ \A j \in 1..Len(h) :
                   /\ h[j].epoch = Cardinality({i \in 1..j : h[i].exhausted})
                   /\ h[j].exhausted => Len(Processed(h, j, "batches")) = N * h[j].epoch
                   /\ h[j].ret =
                        Ok(<<Mean(From(Processed(h, j, "losses"), N * EpochBefore(h, j))),
                             Mean(From(Processed(h, j, "accs"), N * EpochBefore(h, j)))>>)
             /\ h # <<>> =>
                   /\ agent[a].epoch = h[Len(h)].epoch
                   /\ agent[a].data_generator = Len(all) - N * agent[a].epoch

C17_Witness ==
    LET h == history[Trainee]
    IN /\ Len(train_loader[Trainee]) = 2
       /\ Len(h) = 4
       /\ h[1].batches = <<0>>
       /\ h[2].batches = <<1>> /\ ~h[2].exhausted
       /\ h[3].batches = <<>> /\ h[3].exhausted
       /\ h[4].batches = <<0, 1>> /\ h[4].exhausted
       /\ h[4].epoch = 2

====
